---- MODULE Spec2Model ----
(***************************************************************************)
(* A model of the chunk-level PNG codec of png_pong: the chunk parser      *)
(* (src/src/decoder.rs), the image-header codec (src/src/chunk/ihdr.rs)    *)
(* and the text codec (src/src/chunk/text.rs).                             *)
(*                                                                         *)
(* Bytes are the integers 0..255.  A u32 is kept at its full width as the  *)
(* tuple of its four big-endian bytes <<b3, b2, b1, b0>>, which is what    *)
(* u32::from_be_bytes reads and what the checksum arithmetic (XOR, >> 8,   *)
(* low byte) works on.                                                     *)
(***************************************************************************)
EXTENDS Integers, Sequences, FiniteSets, TLC

VARIABLES
    input,     \* the bytes of the source, signature included
    ioErrAt,   \* 1-based index of a byte whose read fails with a non-EOF I/O error (0: none)
    pos,       \* number of bytes of input the reader has consumed
    length,    \* Parser.length
    chksum,    \* Parser.chksum
    palette,   \* Parser.palette
    pc,        \* "new" before Decoder::new; "idle" between chunks; "body" after
               \* prepare() returned a tag; "done" after the clean end; "failed"
               \* after an error
    ret,       \* what the last operation returned
    hdr,       \* history: value of pos when the last prepare() began
    items,     \* the items the chunk sequence has yielded so far
    arg,       \* the input of a codec function under check
    res        \* the result of a codec function under check

vars == <<input, ioErrAt, pos, length, chksum, palette, pc, ret, hdr, items, arg, res>>

----------------------------------------------------------------------------
(* Bounds of the model *)

\* Largest N of a bytes::<N>() call made by the parser's client.
MaxN == 2
\* Largest index at which the transport may fail with a non-EOF error.
MaxIoErrAt == 1
\* Number of chunks concatenated into one source of the parser specification.
MaxChunks == 2

----------------------------------------------------------------------------
(* Bytes and 32-bit words *)

Byte == 0..255

Min(a, b) == IF a < b THEN a ELSE b

RECURSIVE XorN(_, _, _)
XorN(a, b, n) == IF n = 0 THEN 0 ELSE ((a + b) % 2) + 2 * XorN(a \div 2, b \div 2, n - 1)

Xor4Tab == [a \in 0..15 |-> [b \in 0..15 |-> XorN(a, b, 4)]]

\* u8 ^ u8
Xor8(a, b) == Xor4Tab[a \div 16][b \div 16] * 16 + Xor4Tab[a % 16][b % 16]

\* u32 ^ u32
U32Xor(x, y) == <<Xor8(x[1], y[1]), Xor8(x[2], y[2]), Xor8(x[3], y[3]), Xor8(x[4], y[4])>>

\* u32 >> 8
Shr8(x) == <<0, x[1], x[2], x[3]>>

\* u32 >> 1
Shr1(x) == <<x[1] \div 2, (x[1] % 2) * 128 + x[2] \div 2, (x[2] % 2) * 128 + x[3] \div 2, (x[3] % 2) * 128 + x[4] \div 2>>

\* u32 > u32
U32Gt(x, y) ==
    \E i \in 1..4 : x[i] > y[i] /\ \A j \in 1..(i - 1) : x[j] = y[j]

\* u32 as usize, exact below 2^31 and saturated there (every source of the
\* model is far shorter, so a larger count meets the end of input all the same).
U32Val(x) ==
    IF x[1] >= 128 THEN 2147483647
    ELSE x[1] * 16777216 + x[2] * 65536 + x[3] * 256 + x[4]

\* The big-endian bytes of a small number.
U32Be(n) == <<0, 0, n \div 256, n % 256>>

----------------------------------------------------------------------------
(* consts *)

CRC32_INIT == <<255, 255, 255, 255>>
CRC32_POLY == <<237, 184, 131, 32>>
MAX_CHUNK_SIZE == <<127, 255, 255, 255>>
IMAGE_HEADER == <<73, 72, 68, 82>>
TEXT == <<116, 69, 88, 116>>
PNG_SIGNATURE == <<137, 80, 78, 71, 13, 10, 26, 10>>
\* A tag no body codec recognizes ("prVt").
PRIVATE == <<112, 114, 86, 116>>

RECURSIVE CrcBits(_, _)
CrcBits(c, k) ==
    IF k = 0 THEN c
    ELSE IF c[4] % 2 = 1 THEN CrcBits(U32Xor(CRC32_POLY, Shr1(c)), k - 1)
    ELSE CrcBits(Shr1(c), k - 1)

CRC32_LOOKUP == [n \in 0..255 |-> CrcBits(<<0, 0, 0, n>>, 8)]

\* The body of the loop of Parser::bytes.
CrcStep(acc, byte) ==
    LET index == Xor8(acc[4], byte)
    IN  U32Xor(CRC32_LOOKUP[index], Shr8(acc))

RECURSIVE CrcFold(_, _)
\* The loop of Parser::bytes over the bytes of s: the fold of the first half,
\* then from its result the fold of the second half (evaluated in that order,
\* which keeps the evaluation shallow).
CrcFold(c, s) ==
    IF s = <<>> THEN c
    ELSE IF Len(s) = 1 THEN CrcStep(c, s[1])
    ELSE LET m == Len(s) \div 2
             acc == CrcFold(c, SubSeq(s, 1, m))
         IN  IF acc = acc THEN CrcFold(acc, SubSeq(s, m + 1, Len(s))) ELSE acc

----------------------------------------------------------------------------
(* Results *)

NoName == <<>>
NoData == <<>>
NoVal == [kind |-> "None"]

\* st is "ok", "none" (Ok(None)) or "err"; err names the Error variant, io
\* the ErrorKind of Error::Io, name and data what the variant carries, and
\* val the decoded value of a body codec.
Ret(op, st, err, io, name, data, val) ==
    [op |-> op, st |-> st, err |-> err, io |-> io, name |-> name, data |-> data, val |-> val]

RetOk(op, name, data) == Ret(op, "ok", "", "", name, data, NoVal)
RetVal(op, val) == Ret(op, "ok", "", "", NoName, NoData, val)
RetNone(op) == Ret(op, "none", "", "", NoName, NoData, NoVal)
RetErr(op, err, name) == Ret(op, "err", err, "", name, NoData, NoVal)
RetErrData(op, err, data) == Ret(op, "err", err, "", NoName, data, NoVal)
RetIo(op, io) == Ret(op, "err", "Io", io, NoName, NoData, NoVal)
RetPanic(op) == Ret(op, "panic", "", "", NoName, NoData, NoVal)

----------------------------------------------------------------------------
(* The source: read_exact on a reader that holds input and has consumed p bytes *)

\* Index of the last byte that can be read.
Limit == IF ioErrAt \in 1..Len(input) THEN ioErrAt - 1 ELSE Len(input)

\* The ErrorKind of the read that goes past Limit.
ReadErr == IF ioErrAt \in 1..Len(input) THEN "Other" ELSE "UnexpectedEof"

\* How many of the next n bytes can be read.
NumOk(p, n) == IF Limit - p <= 0 THEN 0 ELSE Min(n, Limit - p)

----------------------------------------------------------------------------
(* Parser *)

\* self.length > consts::MAX_CHUNK_SIZE as u32, read as i32 (a sign slip).
chunk_too_long_signed(l) == l[1] < 128 /\ U32Gt(l, MAX_CHUNK_SIZE)

\* self.length > consts::MAX_CHUNK_SIZE as u32
chunk_too_long(l) == U32Gt(l, MAX_CHUNK_SIZE)

\* An end of input at any byte of the header taken for the clean end.
eof_is_clean_end_any(k) == k < 8

\* Only the first u8() of prepare() turns UnexpectedEof into Ok(None): k is
\* the number of header bytes read before the end of input.
eof_is_clean_end(k) == k = 0

\* The checksum left as the length bytes made it.
start_checksum_kept(ck) == ck

\* "Start checksum over": ck is the checksum with the length bytes folded in.
start_checksum(ck) == CRC32_INIT

prepare(p, len, ck) ==
    LET k == NumOk(p, 8)
        b == SubSeq(input, p + 1, p + k)
        name == SubSeq(b, 5, 8)
        ck4 == CrcFold(ck, SubSeq(b, 1, Min(k, 4)))
    IN  IF k < 8 /\ ReadErr = "UnexpectedEof" /\ eof_is_clean_end(k) THEN
            [pos |-> p + k, length |-> len, chksum |-> ck4, ret |-> RetNone("prepare")]
        ELSE IF k < 4 THEN
            [pos |-> p + k, length |-> len, chksum |-> ck4,
             ret |-> RetIo("prepare", ReadErr)]
        ELSE IF k < 8 THEN
            [pos |-> p + k, length |-> SubSeq(b, 1, 4),
             chksum |-> CrcFold(start_checksum(ck4), SubSeq(b, 5, k)),
             ret |-> RetIo("prepare", ReadErr)]
        ELSE
            [pos |-> p + 8, length |-> SubSeq(b, 1, 4),
             chksum |-> CrcFold(start_checksum(ck4), name),
             ret |-> IF chunk_too_long(SubSeq(b, 1, 4))
                     THEN RetErr("prepare", "ChunkLength", name)
                     ELSE RetOk("prepare", name, NoData)]

\* A length that counts one byte more than the header declares.
len_one_more(l) == U32Val(l) + 1

len(l) == U32Val(l)

\* Parser::vec: n calls of u8(), stopping at the first that fails.
vec(op, p, ck, n) ==
    LET k == NumOk(p, n)
        b == SubSeq(input, p + 1, p + k)
    IN  [pos |-> p + k, chksum |-> CrcFold(ck, b),
         ret |-> IF k = n THEN RetOk(op, NoName, b) ELSE RetIo(op, ReadErr)]

raw(p, l, ck) == vec("raw", p, ck, len(l))

unknown_chunk(p, l, ck) == vec("unknown_chunk", p, ck, len(l))

\* Parser::bytes::<n>: one read_exact of n bytes, then the fold.
bytes(p, ck, n) ==
    LET b == SubSeq(input, p + 1, p + n)
    IN  IF NumOk(p, n) = n
        THEN [pos |-> p + n, chksum |-> CrcFold(ck, b), ret |-> RetOk("bytes", NoName, b)]
        ELSE [pos |-> p, chksum |-> ck, ret |-> RetIo("bytes", ReadErr)]

\* The trailing field read and taken for right.
check_crc_unchecked(p, ck, name) ==
    IF NumOk(p, 4) < 4
    THEN [pos |-> p, ret |-> RetIo("check_crc", ReadErr)]
    ELSE [pos |-> p + 4, ret |-> RetOk("check_crc", NoName, NoData)]

check_crc(p, ck, name) ==
    LET crc32 == SubSeq(input, p + 1, p + 4)
    IN  IF NumOk(p, 4) < 4
        THEN [pos |-> p, ret |-> RetIo("check_crc", ReadErr)]
        ELSE [pos |-> p + 4,
              ret |-> IF crc32 # U32Xor(ck, CRC32_INIT)
                      THEN RetErr("check_crc", "Crc32", name)
                      ELSE RetOk("check_crc", NoName, NoData)]

----------------------------------------------------------------------------
(* Decoder *)

\* Only the first four bytes compared.
signature_matches_magic(buf) == SubSeq(buf, 1, 4) = SubSeq(PNG_SIGNATURE, 1, 4)

\* buf != consts::PNG_SIGNATURE, negated
signature_matches(buf) == buf = PNG_SIGNATURE

\* Decoder::new followed by Decoder::parser.
DecoderNew ==
    /\ pc = "new"
    /\ IF NumOk(0, 8) < 8
       THEN /\ pc' = "failed"
            /\ ret' = RetIo("new", ReadErr)
            /\ pos' \in {0, NumOk(0, 8)}
       ELSE IF ~signature_matches(SubSeq(input, 1, 8))
       THEN /\ pc' = "failed"
            /\ ret' = RetErr("new", "InvalidSignature", NoName)
            /\ pos' = 8
       ELSE /\ pc' = "idle"
            /\ ret' = RetOk("new", NoName, NoData)
            /\ pos' = 8
    /\ length' = <<0, 0, 0, 0>>
    /\ chksum' = <<0, 0, 0, 0>>
    /\ palette' = FALSE
    /\ UNCHANGED <<input, ioErrAt, hdr, items, arg, res>>

----------------------------------------------------------------------------
(* The parser driven call by call, in the order its callers (the chunk     *)
(* codecs and the chunk sequence) use it: prepare(), then reads of the     *)
(* body and set_palette(), then check_crc(), then the next prepare().  An  *)
(* error of any call ends the session (the callers propagate it with ?).   *)

Prepare ==
    /\ pc = "idle"
    /\ LET r == prepare(pos, length, chksum)
       IN  /\ pos' = r.pos
           /\ length' = r.length
           /\ chksum' = r.chksum
           /\ ret' = r.ret
           /\ pc' = CASE r.ret.st = "ok" -> "body"
                      [] r.ret.st = "none" -> "done"
                      [] OTHER -> "failed"
    /\ hdr' = pos
    /\ UNCHANGED <<input, ioErrAt, palette, items, arg, res>>

\* The flag flipped by each call.
set_palette_toggles(p) == ~p

\* self.palette = true
set_palette(p) == TRUE

SetPalette ==
    /\ pc = "body"
    /\ palette' = set_palette(palette)
    /\ ret' = RetOk("set_palette", NoName, NoData)
    /\ UNCHANGED <<input, ioErrAt, pos, length, chksum, pc, hdr, items, arg, res>>

has_palette == palette

Raw ==
    /\ pc = "body"
    /\ LET r == raw(pos, length, chksum)
       IN  /\ pos' = r.pos
           /\ chksum' = r.chksum
           /\ ret' = r.ret
           /\ pc' = IF r.ret.st = "ok" THEN "body" ELSE "failed"
    /\ UNCHANGED <<input, ioErrAt, length, palette, hdr, items, arg, res>>

UnknownChunk ==
    /\ pc = "body"
    /\ LET r == unknown_chunk(pos, length, chksum)
       IN  /\ pos' = r.pos
           /\ chksum' = r.chksum
           /\ ret' = r.ret
           /\ pc' = IF r.ret.st = "ok" THEN "body" ELSE "failed"
    /\ UNCHANGED <<input, ioErrAt, length, palette, hdr, items, arg, res>>

\* After a read_exact of several bytes that failed, the reader may have
\* consumed none or all of the bytes it had.
Bytes ==
    /\ pc = "body"
    /\ \E n \in 1..MaxN :
         LET r == bytes(pos, chksum, n)
         IN  /\ pos' \in IF r.ret.st = "ok" THEN {r.pos} ELSE {pos, pos + NumOk(pos, n)}
             /\ chksum' = r.chksum
             /\ ret' = r.ret
             /\ pc' = IF r.ret.st = "ok" THEN "body" ELSE "failed"
    /\ UNCHANGED <<input, ioErrAt, length, palette, hdr, items, arg, res>>

\* The tag the last prepare() returned.
CurTag == SubSeq(input, hdr + 5, hdr + 8)

CheckCrc ==
    /\ pc = "body"
    /\ LET r == check_crc(pos, chksum, CurTag)
       IN  /\ pos' \in IF r.ret.err = "Io" THEN {pos, pos + NumOk(pos, 4)} ELSE {r.pos}
           /\ ret' = r.ret
           /\ pc' = IF r.ret.st = "ok" THEN "idle" ELSE "failed"
    /\ UNCHANGED <<input, ioErrAt, length, chksum, palette, hdr, items, arg, res>>

----------------------------------------------------------------------------
(* Sources *)

RECURSIVE CrcBitFold(_, _)
\* The checksum the encoder appends, computed bit by bit.
CrcBitFold(c, s) ==
    IF s = <<>> THEN c
    ELSE IF Len(s) = 1 THEN CrcBits(U32Xor(c, <<0, 0, 0, s[1]>>), 8)
    ELSE LET m == Len(s) \div 2
             acc == CrcBitFold(c, SubSeq(s, 1, m))
         IN  IF acc = acc THEN CrcBitFold(acc, SubSeq(s, m + 1, Len(s))) ELSE acc

encode_chunk(tag, body) ==
    U32Be(Len(body)) \o tag \o body \o U32Xor(CrcBitFold(CRC32_INIT, tag \o body), CRC32_INIT)

Prefixes(s) == {SubSeq(s, 1, k) : k \in 0..Len(s)}

\* Chunks of the parser specification: well formed ones, and ones that end
\* a source: with a wrong checksum, and with a header that declares more
\* than, and exactly, the maximum length.
GoodChunks ==
    { encode_chunk(PRIVATE, <<>>),
      encode_chunk(TEXT, <<65, 0, 66>>) }

LastChunks ==
    GoodChunks
    \cup { U32Be(1) \o PRIVATE \o <<7>> \o <<0, 0, 0, 0>>,
           <<128, 0, 0, 0>> \o TEXT \o <<65, 0>>,
           MAX_CHUNK_SIZE \o PRIVATE \o <<1, 2, 3, 4, 5>> }

RECURSIVE ChunkSeqs(_, _, _)
\* Up to n chunks, all but the last of them from G, the last from L.
ChunkSeqs(G, L, n) ==
    IF n = 0 THEN {<<>>}
    ELSE {<<>>} \cup L \cup {c \o s : c \in G, s \in ChunkSeqs(G, L, n - 1)}

\* The signature with one bit of one of its bytes flipped.
BadSignatures == {[PNG_SIGNATURE EXCEPT ![i] = Xor8(@, 1)] : i \in 1..Len(PNG_SIGNATURE)}

ParserSources ==
    UNION {Prefixes(PNG_SIGNATURE \o s) : s \in ChunkSeqs(GoodChunks, LastChunks, MaxChunks)}
    \cup {b \o encode_chunk(PRIVATE, <<>>) : b \in BadSignatures}

\* Where the transport fails: nowhere (0), inside the signature, or at one
\* of the first bytes after it.
IoErrPositions == {0, Len(PNG_SIGNATURE)} \cup {Len(PNG_SIGNATURE) + i : i \in 1..MaxIoErrAt}

\* Nothing read, no Parser yet.
InitParser ==
    /\ pos = 0
    /\ length = <<0, 0, 0, 0>>
    /\ chksum = <<0, 0, 0, 0>>
    /\ palette = FALSE
    /\ ret = RetOk("", NoName, NoData)
    /\ hdr = 0
    /\ items = <<>>

NoArg == [kind |-> "None"]

Init ==
    /\ input \in ParserSources
    /\ ioErrAt \in IoErrPositions
    /\ InitParser
    /\ pc = "new"
    /\ arg = NoArg
    /\ res = RetOk("", NoName, NoData)

Next ==
    \/ DecoderNew
    \/ Prepare
    \/ SetPalette
    \/ Raw
    \/ UnknownChunk
    \/ Bytes
    \/ CheckCrc

Spec == Init /\ [][Next]_vars

----------------------------------------------------------------------------
(* Claims about the parser *)

\* The header of the chunk the last prepare() was called on.
HdrLength == SubSeq(input, hdr + 1, hdr + 4)
HdrAvail == NumOk(hdr, 8)

\* C1: when prepare() reads a chunk header (all 8 bytes) whose declared length
\* is greater than MAX_CHUNK_SIZE, it returns ChunkLength carrying that chunk's
\* tag and has consumed exactly the 8 header bytes, none of the body.
C1_OversizeRejectedAtHeader ==
    (ret.op = "prepare" /\ HdrAvail = 8 /\ U32Gt(HdrLength, MAX_CHUNK_SIZE))
        => /\ ret = RetErr("prepare", "ChunkLength", SubSeq(input, hdr + 5, hdr + 8))
           /\ pos = hdr + 8
           /\ pc = "failed"

\* An oversize header was rejected while body bytes were there to be read.
C1_Witness ==
    /\ ret.op = "prepare"
    /\ ret.err = "ChunkLength"
    /\ U32Gt(HdrLength, MAX_CHUNK_SIZE)
    /\ pos = hdr + 8
    /\ Len(input) > pos

\* C4: prepare() returns the clean end exactly when the source is exhausted
\* where the length field would start; an end of input after 1 to 7 header
\* bytes is an I/O error; and a read of a body or of a checksum field either
\* delivers every byte it was asked for from the source or is an I/O error,
\* never a clean end.
C4_CleanEndOnlyAtBoundary ==
    /\ ret.op = "prepare" => ((ret.st = "none") <=> (hdr = Len(input)))
    /\ (ret.op = "prepare" /\ HdrAvail \in 1..7 /\ ReadErr = "UnexpectedEof")
           => ret = RetIo("prepare", "UnexpectedEof") /\ pc = "failed"
    /\ (pc = "done") <=> (ret.st = "none")
    /\ ret.st = "none" => ret.op = "prepare" /\ pos = hdr
    /\ ret.op \in {"raw", "unknown_chunk", "bytes", "check_crc"}
           => \/ ret.st = "ok" /\ pos <= Limit
              \/ ret = RetIo(ret.op, ReadErr) /\ pc = "failed"
              \/ ret.op = "check_crc" /\ ret.err = "Crc32" /\ pos <= Limit

\* prepare() met the end of input inside a header.
C4_Witness ==
    /\ ret = RetIo("prepare", "UnexpectedEof")
    /\ Len(input) - hdr \in 1..7

\* C5: while a chunk is being read, and when check_crc compares, the running
\* checksum is the CRC fold, from the initial constant, of the chunk's 4 tag
\* bytes and the body bytes consumed since prepare(), and of nothing else;
\* check_crc succeeds iff the big-endian trailing field equals that value XOR
\* the initial constant, and otherwise fails with Crc32 carrying the tag.
C5_ChecksumScope ==
    /\ pc = "body" => chksum = CrcBitFold(CRC32_INIT, SubSeq(input, hdr + 5, pos))
    /\ (ret.op = "check_crc" /\ ret.err # "Io")
           => LET acc == CrcBitFold(CRC32_INIT, SubSeq(input, hdr + 5, pos - 4))
                  field == SubSeq(input, pos - 3, pos)
              IN  /\ chksum = acc
                  /\ IF field = U32Xor(acc, CRC32_INIT)
                     THEN ret = RetOk("check_crc", NoName, NoData)
                     ELSE ret = RetErr("check_crc", "Crc32", CurTag)

\* check_crc accepted the second chunk of a source, after body bytes were read.
C5_Witness ==
    /\ ret = RetOk("check_crc", NoName, NoData)
    /\ hdr > Len(PNG_SIGNATURE)
    /\ pos - 4 > hdr + 8

----------------------------------------------------------------------------
(* chunk/ihdr.rs: ColorType *)

ColorType == {"Grey", "Rgb", "Palette", "GreyAlpha", "Rgba"}

\* color_type as u8
ColorTypeAsU8(ct) ==
    CASE ct = "Grey" -> 0
      [] ct = "Rgb" -> 2
      [] ct = "Palette" -> 3
      [] ct = "GreyAlpha" -> 4
      [] ct = "Rgba" -> 6

\* Palette taken to allow what Grey allows.
check_png_color_validity_palette16(ct, bd) ==
    IF \/ ct \in {"Grey", "Palette"} /\ ~(bd = 1 \/ bd = 2 \/ bd = 4 \/ bd = 8 \/ bd = 16)
       \/ ct \in {"Rgb", "GreyAlpha", "Rgba"} /\ ~(bd = 8 \/ bd = 16)
    THEN RetErrData("check_png_color_validity", "ColorMode", <<ColorTypeAsU8(ct), bd>>)
    ELSE RetOk("check_png_color_validity", NoName, NoData)

check_png_color_validity(ct, bd) ==
    IF \/ ct = "Grey" /\ ~(bd = 1 \/ bd = 2 \/ bd = 4 \/ bd = 8 \/ bd = 16)
       \/ ct = "Palette" /\ ~(bd = 1 \/ bd = 2 \/ bd = 4 \/ bd = 8)
       \/ ct \in {"Rgb", "GreyAlpha", "Rgba"} /\ ~(bd = 8 \/ bd = 16)
    THEN RetErrData("check_png_color_validity", "ColorMode", <<ColorTypeAsU8(ct), bd>>)
    ELSE RetOk("check_png_color_validity", NoName, NoData)

channels(ct) ==
    CASE ct \in {"Grey", "Palette"} -> 1
      [] ct = "GreyAlpha" -> 2
      [] ct = "Rgb" -> 3
      [] ct = "Rgba" -> 4

\* Every depth of a color with more than one channel taken for 16.
bpp_sixteen(ct, bd) ==
    IF ~(bd >= 1 /\ bd <= 16) THEN RetPanic("bpp")
    ELSE LET ch == channels(ct)
         IN  RetOk("bpp", NoName, <<(ch * (IF ch > 1 THEN 16 ELSE bd)) % 256>>)

\* ColorType::bpp: the assertion, then a product of two u8.
bpp(ct, bd) ==
    IF ~(bd >= 1 /\ bd <= 16) THEN RetPanic("bpp")
    ELSE LET ch == channels(ct)
         IN  RetOk("bpp", NoName,
                   <<(ch * (IF ch > 1 THEN (IF bd = 8 THEN 8 ELSE 16) ELSE bd)) % 256>>)

\* The specification of the validity check: every color type with every u8.
ColorCheck ==
    /\ pc = "color"
    /\ res' = check_png_color_validity(arg.color_type, arg.bit_depth)
    /\ pc' = "colorDone"
    /\ UNCHANGED <<input, ioErrAt, pos, length, chksum, palette, ret, hdr, items, arg>>

InitColor ==
    /\ input = <<>>
    /\ ioErrAt = 0
    /\ InitParser
    /\ pc = "color"
    /\ arg \in [kind : {"Color"}, color_type : ColorType, bit_depth : Byte]
    /\ res = RetOk("", NoName, NoData)

NextColor == ColorCheck

SpecColor == InitColor /\ [][NextColor]_vars

\* The validity matrix of the format.
ValidityMatrix ==
    ({"Grey"} \X {1, 2, 4, 8, 16})
    \cup ({"Palette"} \X {1, 2, 4, 8})
    \cup ({"Rgb", "GreyAlpha", "Rgba"} \X {8, 16})

\* C6: for every color type and every 8-bit bit depth, check_png_color_validity
\* succeeds exactly when the pair is in the validity matrix, and for every other
\* pair fails with ColorMode carrying that color type and that bit depth.
C6_ValidityMatrix ==
    pc = "colorDone"
        => IF <<arg.color_type, arg.bit_depth>> \in ValidityMatrix
           THEN res.st = "ok"
           ELSE /\ res.st = "err"
                /\ res.err = "ColorMode"
                /\ res.data = <<ColorTypeAsU8(arg.color_type), arg.bit_depth>>

\* The check has rejected Palette at depth 16, which Grey allows.
C6_Witness ==
    /\ pc = "colorDone"
    /\ arg.color_type = "Palette"
    /\ arg.bit_depth = 16
    /\ res.err = "ColorMode"

----------------------------------------------------------------------------
(* chunk/ihdr.rs: ImageHeader.  A width or a height is a u32 kept as its   *)
(* two 16-bit halves [hi, lo], so that writing it big-endian and reading   *)
(* it back are conversions.                                                *)

U32(hi, lo) == [hi |-> hi, lo |-> lo]

\* encode_u32: the four big-endian bytes.
encode_u32(x) == <<x.hi \div 256, x.hi % 256, x.lo \div 256, x.lo % 256>>

\* CrcDecoder::u32: four bytes read big-endian.
decode_u32(b) == U32(b[1] * 256 + b[2], b[3] * 256 + b[4])

\* bool as u8
BoolAsU8(b) == IF b THEN 1 ELSE 0

\* The match of ImageHeader::read on the color type byte.
ColorTypeFromU8(c) ==
    CASE c = 0 -> "Grey"
      [] c = 2 -> "Rgb"
      [] c = 3 -> "Palette"
      [] c = 4 -> "GreyAlpha"
      [] c = 6 -> "Rgba"
      [] OTHER -> "Invalid"

ImageHeader(width, height, color_type, bit_depth, interlace) ==
    [kind |-> "ImageHeader", width |-> width, height |-> height,
     color_type |-> color_type, bit_depth |-> bit_depth, interlace |-> interlace]

\* The 13 bytes of the header, with the color type written before the bit depth.
ImageHeader_body_swapped(h) ==
    encode_u32(h.width) \o encode_u32(h.height)
        \o <<ColorTypeAsU8(h.color_type), h.bit_depth, 0, 0, BoolAsU8(h.interlace)>>

\* The 13 bytes ImageHeader::write collects in header.
ImageHeader_body(h) ==
    encode_u32(h.width) \o encode_u32(h.height)
        \o <<h.bit_depth, ColorTypeAsU8(h.color_type), 0, 0, BoolAsU8(h.interlace)>>

ImageHeader_write(h) == encode_chunk(IMAGE_HEADER, ImageHeader_body(h))

\* Interlace read before the compression and filter methods are checked.
ihdr_field_error_interlace_first(width, height, bit_depth, c, compression, filter, interlace) ==
    IF width = U32(0, 0) \/ height = U32(0, 0) THEN RetErr("read", "ImageDimensions", NoName)
    ELSE IF bit_depth = 0 \/ bit_depth > 16 THEN RetErrData("read", "BitDepth", <<bit_depth>>)
    ELSE IF ColorTypeFromU8(c) = "Invalid" THEN RetErrData("read", "ColorType", <<c>>)
    ELSE IF check_png_color_validity(ColorTypeFromU8(c), bit_depth).st # "ok"
    THEN [check_png_color_validity(ColorTypeFromU8(c), bit_depth) EXCEPT !.op = "read"]
    ELSE IF interlace \notin {0, 1} THEN RetErr("read", "InterlaceMethod", NoName)
    ELSE IF compression # 0 THEN RetErr("read", "CompressionMethod", NoName)
    ELSE IF filter # 0 THEN RetErr("read", "FilterMethod", NoName)
    ELSE RetOk("read", NoName, NoData)

\* The checks of ImageHeader::read on the fields, in the order it makes them.
ihdr_field_error(width, height, bit_depth, c, compression, filter, interlace) ==
    IF width = U32(0, 0) \/ height = U32(0, 0) THEN RetErr("read", "ImageDimensions", NoName)
    ELSE IF bit_depth = 0 \/ bit_depth > 16 THEN RetErrData("read", "BitDepth", <<bit_depth>>)
    ELSE IF ColorTypeFromU8(c) = "Invalid" THEN RetErrData("read", "ColorType", <<c>>)
    ELSE IF check_png_color_validity(ColorTypeFromU8(c), bit_depth).st # "ok"
    THEN [check_png_color_validity(ColorTypeFromU8(c), bit_depth) EXCEPT !.op = "read"]
    ELSE IF compression # 0 THEN RetErr("read", "CompressionMethod", NoName)
    ELSE IF filter # 0 THEN RetErr("read", "FilterMethod", NoName)
    ELSE IF interlace \notin {0, 1} THEN RetErr("read", "InterlaceMethod", NoName)
    ELSE RetOk("read", NoName, NoData)

\* How many bytes ImageHeader::read has asked for when it returns the error
\* e of a check (each field is read right before its check).
ihdr_bytes_read(e) ==
    CASE e = "ImageDimensions" -> 8
      [] e = "BitDepth" -> 9
      [] e \in {"ColorType", "ColorMode"} -> 10
      [] e = "CompressionMethod" -> 11
      [] e = "FilterMethod" -> 12
      [] OTHER -> 13

\* The end of each field of the body, in reading order.
IhdrFieldEnds == <<4, 8, 9, 10, 11, 12, 13>>

\* CrcDecoder::end: reads the trailing field and compares it with the
\* checksum of the tag and of the bytes read.
CrcDecoder_end(p, tag, body) ==
    IF NumOk(p, 4) < 4 THEN RetIo("read", ReadErr)
    ELSE IF SubSeq(input, p + 1, p + 4) # U32Xor(CrcFold(CrcFold(CRC32_INIT, tag), body), CRC32_INIT)
    THEN RetErr("read", "Crc32", tag)
    ELSE RetOk("read", NoName, NoData)

\* ImageHeader::read on a reader that has consumed p bytes.  Bytes past the
\* end of the source stand as 0 in B and are never looked at: the read of
\* the first missing field fails before.
ImageHeader_read(p) ==
    LET k == NumOk(p, 13)
        B == [i \in 1..13 |-> IF i <= k THEN input[p + i] ELSE 0]
        width == decode_u32(<<B[1], B[2], B[3], B[4]>>)
        height == decode_u32(<<B[5], B[6], B[7], B[8]>>)
        e == ihdr_field_error(width, height, B[9], B[10], B[11], B[12], B[13])
        need == IF e.st = "ok" THEN 13 ELSE ihdr_bytes_read(e.err)
        \* the fields read in full
        done == {IhdrFieldEnds[i] : i \in {j \in 1..7 : IhdrFieldEnds[j] <= k}} \cup {0}
        last == CHOOSE d \in done : \A x \in done : x <= d
        c == CrcDecoder_end(p + 13, IMAGE_HEADER, SubSeq(input, p + 1, p + 13))
    IN  IF k < need THEN [pos |-> p + last, ret |-> RetIo("read", ReadErr)]
        ELSE IF e.st # "ok" THEN [pos |-> p + need, ret |-> e]
        ELSE IF c.st # "ok" THEN [pos |-> IF c.err = "Io" THEN p + 13 ELSE p + 17, ret |-> c]
        ELSE [pos |-> p + 17,
              ret |-> RetVal("read", ImageHeader(width, height, ColorTypeFromU8(B[10]),
                                                  B[9], B[13] = 1))]

----------------------------------------------------------------------------
(* usize arithmetic.  A number is kept as its base-256 digits, the lowest  *)
(* first, with room for every exact product and sum of raw_size().         *)

Digits == 0..9

\* The bytes of a usize.
USIZE_BYTES == 8

Digit(a, i) == IF i \in Digits THEN a[i] ELSE 0

RECURSIVE Carry(_, _)
\* The carry into digit i of the columns c.
Carry(c, i) == IF i = 0 THEN 0 ELSE (c[i - 1] + Carry(c, i - 1)) \div 256

Norm(c) == [i \in Digits |-> (c[i] + Carry(c, i)) % 256]

\* A number below 2^31.
BigOfInt(k) ==
    [i \in Digits |-> CASE i = 0 -> k % 256
                        [] i = 1 -> (k \div 256) % 256
                        [] i = 2 -> (k \div 65536) % 256
                        [] i = 3 -> k \div 16777216
                        [] OTHER -> 0]

\* u32 as usize
BigOfU32(x) ==
    [i \in Digits |-> CASE i = 0 -> x.lo % 256
                        [] i = 1 -> x.lo \div 256
                        [] i = 2 -> x.hi % 256
                        [] i = 3 -> x.hi \div 256
                        [] OTHER -> 0]

BigAdd(a, b) == Norm([i \in Digits |-> a[i] + b[i]])

\* The product with a number below 2^32.
BigMul(a, b) ==
    Norm([i \in Digits |-> a[0] * Digit(b, i) + a[1] * Digit(b, i - 1)
                            + a[2] * Digit(b, i - 2) + a[3] * Digit(b, i - 3)])

\* The product with a number below 2^16.
BigScale(a, k) == Norm([i \in Digits |-> a[i] * k])

\* n / 8
BigShr3(a) == [i \in Digits |-> (a[i] \div 8) + (Digit(a, i + 1) % 8) * 32]

BigLt(a, b) == \E i \in Digits : a[i] < b[i] /\ \A j \in Digits : j > i => a[j] = b[j]

\* What a usize keeps of a number.
Wrap(a) == [i \in Digits |-> IF i < USIZE_BYTES THEN a[i] ELSE 0]

Fits(a) == a = Wrap(a)

\* ImageHeader::bpp
ImageHeader_bpp(h) == bpp(h.color_type, h.bit_depth)

RetSize(a) == Ret("raw_size", "ok", "", "", NoName, NoData, [kind |-> "usize", digits |-> a])

\* Each row rounded up to whole bytes on its own.
raw_size_per_row(h) ==
    LET b == ImageHeader_bpp(h)
    IN  IF b.st = "panic" THEN {RetPanic("raw_size")}
        ELSE LET row == BigShr3(BigAdd(BigScale(BigOfU32(h.width), b.data[1]), BigOfInt(7)))
                 s == BigMul(BigOfU32(h.height), row)
             IN  IF Fits(s) THEN {RetSize(s)} ELSE {RetPanic("raw_size"), RetSize(Wrap(s))}

\* ImageHeader::raw_size: the results it can have.  A product or a sum
\* that does not fit a usize panics, or wraps.
raw_size(h) ==
    LET b == ImageHeader_bpp(h)
    IN  IF b.st = "panic" THEN {RetPanic("raw_size")}
        ELSE LET n == BigMul(BigOfU32(h.width), BigOfU32(h.height))
                 whole == BigScale(BigShr3(n), b.data[1])
                 rest == BigOfInt(((n[0] % 8) * b.data[1] + 7) \div 8)
                 s == BigAdd(Wrap(whole), rest)
             IN  IF Fits(n) /\ Fits(whole) /\ Fits(s) THEN {RetSize(s)}
                 ELSE {RetPanic("raw_size"), RetSize(Wrap(s))}

----------------------------------------------------------------------------
(* The specification of the image-header codec: a header is written and    *)
(* read back, or a 13-byte body is framed as a chunk and read.             *)

IhdrDims ==
    {U32(0, 0), U32(0, 1), U32(0, 3), U32(0, 5), U32(256, 0), U32(4095, 65534), U32(65535, 65535)}

IhdrHeaders ==
    {ImageHeader(w, h, ct, bd, il) :
        w \in IhdrDims, h \in IhdrDims, ct \in ColorType, bd \in {1, 2, 4, 8, 16},
        il \in BOOLEAN}

IhdrBodies ==
    {encode_u32(w) \o encode_u32(h) \o <<bd, c, cm, fm, il>> :
        w \in {U32(0, 0), U32(0, 1)}, h \in {U32(0, 0), U32(1, 0)},
        bd \in {0, 1, 4, 8, 16, 17}, c \in {0, 1, 3, 6},
        cm \in {0, 1}, fm \in {0, 1}, il \in {0, 1, 2}}

\* cut: how many bytes of body and checksum field the source holds.
IhdrArgs ==
    {[kind |-> "Header", h |-> h] : h \in IhdrHeaders}
    \cup {[kind |-> "Body", body |-> b, crcOk |-> ok, cut |-> cut] :
              b \in IhdrBodies, ok \in BOOLEAN, cut \in {13, 17}}

InitIhdr ==
    /\ input = <<>>
    /\ ioErrAt = 0
    /\ InitParser
    /\ pc = "ihdr"
    /\ arg \in IhdrArgs
    /\ res = RetOk("", NoName, NoData)

\* ImageHeader::write; the reader then stands after the length and the tag.
IhdrWrite ==
    /\ pc = "ihdr"
    /\ arg.kind = "Header"
    /\ input' = ImageHeader_write(arg.h)
    /\ pos' = 8
    /\ pc' = "ihdrRead"
    /\ UNCHANGED <<ioErrAt, length, chksum, palette, ret, hdr, items, arg, res>>

\* A chunk around the body, with the checksum right or its last bit flipped.
IhdrFrame ==
    /\ pc = "ihdr"
    /\ arg.kind = "Body"
    /\ LET wire == encode_chunk(IMAGE_HEADER, arg.body)
           sent == IF arg.crcOk THEN wire
                   ELSE [wire EXCEPT ![Len(wire)] = Xor8(wire[Len(wire)], 1)]
       IN  input' = SubSeq(sent, 1, 8 + arg.cut)
    /\ pos' = 8
    /\ pc' = "ihdrRead"
    /\ UNCHANGED <<ioErrAt, length, chksum, palette, ret, hdr, items, arg, res>>

\* After a read that failed, the reader may have consumed none or all of the
\* bytes it had.
PosAfter(r) == IF r.ret.err = "Io" THEN {r.pos, Limit} ELSE {r.pos}

IhdrRead ==
    /\ pc = "ihdrRead"
    /\ LET r == ImageHeader_read(pos)
       IN  /\ res' = r.ret
           /\ pos' \in PosAfter(r)
    /\ pc' = "ihdrDone"
    /\ UNCHANGED <<input, ioErrAt, length, chksum, palette, ret, hdr, items, arg>>

\* ImageHeader::raw_size of the header that was read.
IhdrRawSize ==
    /\ pc = "ihdrDone"
    /\ res.st = "ok"
    /\ ret' \in raw_size(res.val)
    /\ pc' = "ihdrSized"
    /\ UNCHANGED <<input, ioErrAt, pos, length, chksum, palette, hdr, items, arg, res>>

NextIhdr == IhdrWrite \/ IhdrFrame \/ IhdrRead \/ IhdrRawSize

SpecIhdr == InitIhdr /\ [][NextIhdr]_vars

ValidHeader(h) ==
    /\ h.width # U32(0, 0)
    /\ h.height # U32(0, 0)
    /\ <<h.color_type, h.bit_depth>> \in ValidityMatrix

\* C7: for every valid ImageHeader (width > 0, height > 0, color type and bit
\* depth in the validity matrix, any interlace flag), what ImageHeader::write
\* emits is read back by ImageHeader::read without error as a header of the
\* same width, height, color_type, bit_depth and interlace.
C7_HeaderRoundTrip ==
    (pc = "ihdrDone" /\ arg.kind = "Header" /\ ValidHeader(arg.h))
        => res = RetVal("read", arg.h)

\* A valid interlaced header with the largest width was written and read back.
C7_Witness ==
    /\ pc = "ihdrDone"
    /\ arg.kind = "Header"
    /\ ValidHeader(arg.h)
    /\ arg.h.width = U32(65535, 65535)
    /\ arg.h.interlace
    /\ res.st = "ok"

\* The first constraint, in the order of the format's description, that a
\* 13-byte body violates ("" when it violates none).
FirstViolation(b) ==
    IF (\A i \in 1..4 : b[i] = 0) \/ (\A i \in 5..8 : b[i] = 0) THEN "ImageDimensions"
    ELSE IF b[9] \notin 1..16 THEN "BitDepth"
    ELSE IF b[10] \notin {0, 2, 3, 4, 6} THEN "ColorType"
    ELSE IF <<ColorTypeFromU8(b[10]), b[9]>> \notin ValidityMatrix THEN "ColorMode"
    ELSE IF b[11] # 0 THEN "CompressionMethod"
    ELSE IF b[12] # 0 THEN "FilterMethod"
    ELSE IF b[13] \notin {0, 1} THEN "InterlaceMethod"
    ELSE ""

\* C10: ImageHeader::read reports the error of the first violated constraint in
\* the order dimensions, bit depth, color type, color mode, compression method,
\* filter method, interlace method, whatever else the body violates; a body that
\* violates none, in a chunk whose checksum field is there and right, decodes
\* successfully (and with a wrong checksum field fails only then, with Crc32).
C10_FirstViolationWins ==
    (pc = "ihdrDone" /\ arg.kind = "Body")
        => LET v == FirstViolation(arg.body)
           IN  /\ v # "" => res.st = "err" /\ res.err = v
               /\ (v = "" /\ arg.cut = 17 /\ arg.crcOk)
                      => /\ res.st = "ok"
                         /\ ImageHeader_body(res.val) = arg.body
               /\ (v = "" /\ arg.cut = 17 /\ ~arg.crcOk)
                      => res = RetErr("read", "Crc32", IMAGE_HEADER)

\* A body that violates the bit depth, the color type and the interlace
\* method was reported for its bit depth.
C10_Witness ==
    /\ pc = "ihdrDone"
    /\ arg.kind = "Body"
    /\ arg.body[9] = 17
    /\ arg.body[10] = 1
    /\ arg.body[13] = 2
    /\ res = RetErrData("read", "BitDepth", <<17>>)

----------------------------------------------------------------------------
(* chunk/text.rs: Text.  A String is the sequence of its bytes.            *)

Text(key, val) == [kind |-> "Text", key |-> key, val |-> val]

\* Enc: prepare() writes the length and the tag, str() the bytes and one
\* terminator, string() the bytes, write_crc() the checksum of what follows
\* the length.
Enc_prepare(n, tag) == U32Be(n) \o tag

Enc_str(s) == s \o <<0>>

Enc_string(s) == s

Enc_write_crc(out) ==
    out \o U32Xor(CrcBitFold(CRC32_INIT, SubSeq(out, 5, Len(out))), CRC32_INIT)

\* Text::write: the result and what was written.
Text_write(t) ==
    IF t.key = <<>>
    THEN [ret |-> RetErrData("write", "KeySize", <<0>>), out |-> <<>>]
    ELSE [ret |-> RetOk("write", NoName, NoData),
          out |-> Enc_write_crc(Enc_prepare(Len(t.key) + Len(t.val) + 1, TEXT)
                                \o Enc_str(t.key) \o Enc_string(t.val))]

HasTerminator(b) == \E i \in 1..Len(b) : b[i] = 0

FirstTerminator(b) == CHOOSE i \in 1..Len(b) : b[i] = 0 /\ \A j \in 1..(i - 1) : b[j] # 0

\* Reader::strz: the bytes before the first terminator, the reader left
\* after it.  On a buffer with no terminator the reader either fails or
\* hands out all the bytes.
strz(b) ==
    IF HasTerminator(b)
    THEN {[st |-> "ok", key |-> SubSeq(b, 1, FirstTerminator(b) - 1), at |-> FirstTerminator(b)]}
    ELSE {[st |-> "err", key |-> <<>>, at |-> 0],
          [st |-> "ok", key |-> b, at |-> Len(b)]}

REPLACEMENT_CHARACTER == <<239, 191, 189>>

RECURSIVE from_utf8_lossy(_)
\* String::from_utf8_lossy on ASCII bytes and bytes that no UTF-8 sequence
\* holds (0xF8..0xFF), each of which becomes U+FFFD.
from_utf8_lossy(s) ==
    IF s = <<>> THEN <<>>
    ELSE IF Len(s) = 1 THEN (IF s[1] < 128 THEN s ELSE REPLACEMENT_CHARACTER)
    ELSE LET m == Len(s) \div 2
             left == from_utf8_lossy(SubSeq(s, 1, m))
         IN  IF left = left THEN left \o from_utf8_lossy(SubSeq(s, m + 1, Len(s))) ELSE left

\* The length of the value taken without the terminator.
text_val_len_no_terminator(n, k) == n - k

\* parse.len() - (key.len() + 1); below 0 the subtraction overflows.
text_val_len(n, k) == n - (k + 1)

\* Text::parse after strz() gave z on a buffer of n bytes: the results it
\* can have.  The overflowing subtraction panics, or wraps to a length
\* that slice() refuses.
text_after_key(buffer, n, z) ==
    IF z.st = "err" THEN {RetErr("parse", "Reader", NoName)}
    ELSE IF Len(z.key) \notin 1..79 THEN {RetErrData("parse", "KeySize", <<Len(z.key)>>)}
    ELSE LET m == text_val_len(n, Len(z.key))
         IN  IF m < 0 THEN {RetPanic("parse"), RetErr("parse", "Reader", NoName)}
             ELSE IF z.at + m > Len(buffer) THEN {RetErr("parse", "Reader", NoName)}
             ELSE IF z.at + m # Len(buffer) THEN {RetPanic("parse")}
             ELSE {RetVal("parse",
                          Text(z.key, from_utf8_lossy(SubSeq(buffer, z.at + 1, z.at + m))))}

\* Text::parse on a parser that has consumed p bytes, after prepare().
Text_parse(p, l, ck) ==
    LET r == raw(p, l, ck)
    IN  IF r.ret.st # "ok"
        THEN {[pos |-> r.pos, chksum |-> r.chksum, ret |-> [r.ret EXCEPT !.op = "parse"]]}
        ELSE {[pos |-> r.pos, chksum |-> r.chksum, ret |-> o] :
                 o \in UNION {text_after_key(r.ret.data, len(l), z) : z \in strz(r.ret.data)}}

----------------------------------------------------------------------------
(* The specification of the text codec: a Text is written and parsed back, *)
(* or a body is framed as a chunk and parsed.                              *)

SeqsUpTo(S, n) == UNION {[1..k -> S] : k \in 0..n}

Rep(n, b) == [i \in 1..n |-> b]

MaxKey == 3
MaxVal == 2

TextKeys == SeqsUpTo({0, 65, 66}, MaxKey) \cup {Rep(79, 107), Rep(80, 107)}

TextVals == SeqsUpTo({0, 66, 126}, MaxVal)

TextBodies ==
    SeqsUpTo({0, 65, 255}, MaxKey)
    \cup {Rep(79, 107), Rep(80, 107), Rep(80, 107) \o <<0, 66>>, Rep(79, 107) \o <<0, 255>>}

\* short: the source ends one byte before the end of the body.
TextArgs ==
    {Text(k, v) : k \in TextKeys, v \in TextVals}
    \cup {[kind |-> "Body", body |-> b, short |-> sh] :
              b \in TextBodies, sh \in BOOLEAN}

InitText ==
    /\ input = <<>>
    /\ ioErrAt = 0
    /\ InitParser
    /\ pc = "text"
    /\ arg \in TextArgs
    /\ res = RetOk("", NoName, NoData)

TextWrite ==
    /\ pc = "text"
    /\ arg.kind = "Text"
    /\ LET r == Text_write(arg)
       IN  /\ res' = r.ret
           /\ input' = r.out
           /\ pc' = IF r.ret.st = "ok" THEN "idle" ELSE "textDone"
    /\ UNCHANGED <<ioErrAt, pos, length, chksum, palette, ret, hdr, items, arg>>

TextFrame ==
    /\ pc = "text"
    /\ arg.kind = "Body"
    /\ LET wire == encode_chunk(TEXT, arg.body)
       IN  input' = IF arg.short /\ arg.body # <<>>
                    THEN SubSeq(wire, 1, Len(wire) - 5)
                    ELSE wire
    /\ pc' = "idle"
    /\ UNCHANGED <<ioErrAt, pos, length, chksum, palette, ret, hdr, items, arg, res>>

TextParse ==
    /\ pc = "body"
    /\ arg.kind \in {"Text", "Body"}
    /\ \E o \in Text_parse(pos, length, chksum) :
          /\ res' = o.ret
          /\ pos' = o.pos
          /\ chksum' = o.chksum
    /\ pc' = "textDone"
    /\ UNCHANGED <<input, ioErrAt, length, palette, ret, hdr, items, arg>>

NextText == TextWrite \/ TextFrame \/ Prepare \/ TextParse

SpecText == InitText /\ [][NextText]_vars

IsAscii(s) == \A i \in 1..Len(s) : s[i] < 128

\* C8: for every Text{key, val} with 1 <= key.len() <= 79, a key that holds
\* no terminator byte (0x00) and an ASCII val, what Text::write produces is
\* decoded by Text::parse to a Text with the same key and the same val.
C8_TextRoundTrip ==
    (/\ pc = "textDone"
     /\ arg.kind = "Text"
     /\ Len(arg.key) \in 1..79
     /\ ~HasTerminator(arg.key)
     /\ IsAscii(arg.val))
        => res = RetVal("parse", Text(arg.key, arg.val))

\* A Text with a key of 79 bytes was written and parsed back.
C8_Witness ==
    /\ pc = "textDone"
    /\ arg.kind = "Text"
    /\ Len(arg.key) = 79
    /\ arg.val = <<66, 126>>
    /\ res.st = "ok"
    /\ res.op = "parse"

\* C8 as stated, with no restriction on the bytes of key: every Text{key,
\* val} with 1 <= key.len() <= 79 and ASCII val is written and parsed back to
\* the same key and the same val.
C8_AnyKeyRoundTrip ==
    (/\ pc = "textDone"
     /\ arg.kind = "Text"
     /\ Len(arg.key) \in 1..79
     /\ IsAscii(arg.val))
        => res = RetVal("parse", Text(arg.key, arg.val))

\* The key candidate of a body: the bytes before its first terminator, all
\* of them when it has none.
KeyCandidateLen(b) == IF HasTerminator(b) THEN FirstTerminator(b) - 1 ELSE Len(b)

\* C9 as stated: Text::parse fails with KeySize for every body, read in full,
\* whose key candidate is not 1 to 79 bytes long or that holds no terminator
\* byte at all.
C9_BadKeyIsKeySize ==
    (/\ pc = "textDone"
     /\ arg.kind = "Body"
     /\ ~arg.short
     /\ (KeyCandidateLen(arg.body) \notin 1..79 \/ ~HasTerminator(arg.body)))
        => (res.st = "err" /\ res.err = "KeySize")

----------------------------------------------------------------------------
(* The chunk sequence: a decode session over a source of whole chunks, one *)
(* bit of which may be flipped.                                            *)

Unknown(name, data) == [kind |-> "Unknown", name |-> name, data |-> data]

\* What the encoder writes for a chunk value.
ChunkWire(d) ==
    CASE d.kind = "ImageHeader" -> ImageHeader_write(d)
      [] d.kind = "Text" -> Text_write(d).out
      [] d.kind = "Unknown" -> encode_chunk(d.name, d.data)

\* The item the sequence yields for a chunk value.
ChunkRet(d) ==
    CASE d.kind = "ImageHeader" -> RetVal("read", d)
      [] d.kind = "Text" -> RetVal("parse", d)
      [] d.kind = "Unknown" -> RetOk("unknown_chunk", d.name, d.data)

RECURSIVE StreamWire(_)
StreamWire(ds) == IF ds = <<>> THEN <<>> ELSE ChunkWire(Head(ds)) \o StreamWire(Tail(ds))

SessionChunks ==
    { ImageHeader(U32(0, 1), U32(0, 1), "Grey", 8, FALSE),
      Text(<<65>>, <<66>>),
      Unknown(PRIVATE, <<7>>) }

\* flip = 0: no bit flipped; flip = n > 0: the n-th bit after the signature.
MaxWellFormed == 3

\* Streams of up to MaxChunks chunks with any one bit flipped or none, and
\* well-formed streams of up to MaxWellFormed chunks.
SessionPlans ==
    UNION {{[kind |-> "Session", chunks |-> ds, flip |-> f] :
                f \in 0..(8 * Len(StreamWire(ds)))} :
           ds \in UNION {[1..n -> SessionChunks] : n \in 1..MaxChunks}}
    \cup {[kind |-> "Session", chunks |-> ds, flip |-> 0] :
              ds \in UNION {[1..n -> SessionChunks] : n \in 0..MaxWellFormed}}

\* The index in the source of the byte that holds the flipped bit.
FlipByte(plan) == Len(PNG_SIGNATURE) + ((plan.flip - 1) \div 8) + 1

FlipBit(b, j) == Xor8(b, 2 ^ j)

SessionSource(plan) ==
    LET w == PNG_SIGNATURE \o StreamWire(plan.chunks)
    IN  IF plan.flip = 0 THEN w
        ELSE [w EXCEPT ![FlipByte(plan)] = FlipBit(w[FlipByte(plan)], (plan.flip - 1) % 8)]

InitSession ==
    /\ arg \in SessionPlans
    /\ input = SessionSource(arg)
    /\ ioErrAt = 0
    /\ InitParser
    /\ pc = "new"
    /\ res = RetOk("", NoName, NoData)

\* The checksum verification that follows the decode of a body, o the
\* outcome of the decode: a checksum failure is the item, else the outcome.
checked(o, name) ==
    IF o.ret.st = "panic" THEN o
    ELSE LET c == check_crc(o.pos, o.chksum, name)
         IN  [pos |-> c.pos, chksum |-> o.chksum,
              ret |-> IF c.ret.st # "ok" THEN c.ret ELSE o.ret]

\* The outcomes of one step of the sequence after prepare() returned h.
chunk_after_header(h) ==
    LET name == h.ret.name
    IN  IF h.ret.st # "ok" THEN {[pos |-> h.pos, chksum |-> h.chksum, ret |-> h.ret]}
        ELSE IF name = IMAGE_HEADER THEN
            LET r == ImageHeader_read(h.pos)
            IN  {[pos |-> q, chksum |-> h.chksum, ret |-> r.ret] : q \in PosAfter(r)}
        ELSE IF name = TEXT THEN
            {checked(o, name) : o \in Text_parse(h.pos, h.length, h.chksum)}
        ELSE
            LET u == unknown_chunk(h.pos, h.length, h.chksum)
            IN  {checked([u EXCEPT !.ret.name = name], name)}

\* A sequence that goes on pulling after an error item.
sequence_state_resumes(st) ==
    CASE st = "ok" -> "idle"
      [] st = "none" -> "done"
      [] st = "panic" -> "panicked"
      [] OTHER -> "idle"

\* Where a pull leaves the sequence: Streaming after a chunk, Done at the
\* clean end, Failed after an error item.
sequence_state(st) ==
    CASE st = "ok" -> "idle"
      [] st = "none" -> "done"
      [] st = "panic" -> "panicked"
      [] OTHER -> "failed"

\* One pull of the sequence: the item is appended with the positions of the
\* source where its chunk starts and ends.
ChunksNext ==
    /\ pc = "idle"
    /\ LET h == prepare(pos, length, chksum)
       IN  /\ length' = h.length
           /\ \E o \in chunk_after_header(h) :
                /\ pos' = o.pos
                /\ chksum' = o.chksum
                /\ ret' = o.ret
                /\ pc' = sequence_state(o.ret.st)
                /\ items' = IF o.ret.st \in {"ok", "err"}
                            THEN Append(items, [ret |-> o.ret, at |-> pos, end |-> o.pos])
                            ELSE items
    /\ hdr' = pos
    /\ UNCHANGED <<input, ioErrAt, palette, arg, res>>

NextSession == DecoderNew \/ ChunksNext

SpecSession == InitSession /\ [][NextSession]_vars

\* Where chunk k of the plan starts in the source (bytes before it).
ChunkStart(plan, k) == Len(PNG_SIGNATURE) + Len(StreamWire(SubSeq(plan.chunks, 1, k - 1)))

\* The chunk of the plan whose body holds the flipped bit (0: none).
FlippedBody(plan) ==
    LET ks == {k \in 1..Len(plan.chunks) :
                  /\ plan.flip # 0
                  /\ FlipByte(plan) > ChunkStart(plan, k) + 8
                  /\ FlipByte(plan) <= ChunkStart(plan, k + 1) - 4}
    IN  IF ks = {} THEN 0 ELSE CHOOSE k \in ks : TRUE

SessionOver == pc \in {"done", "failed", "panicked"}

\* C2 as stated: in a well-formed stream with one bit of the body of its
\* k-th chunk flipped, the session yields the first k-1 chunks unchanged and
\* then, as its k-th and last item, a Crc32 error.
C2_BodyFlipIsCrcError ==
    (SessionOver /\ arg.kind = "Session" /\ FlippedBody(arg) # 0)
        => LET k == FlippedBody(arg)
           IN  /\ Len(items) = k
               /\ items[k].ret.st = "err"
               /\ items[k].ret.err = "Crc32"
               /\ \A i \in 1..(k - 1) : items[i].ret = ChunkRet(arg.chunks[i])

\* C3: every chunk value the session has yielded (image header, text or
\* unknown) is one whose trailing 4-byte field was read in full from the
\* source and equals the checksum of the tag and body bytes consumed for it.
C3_YieldedAfterChecksum ==
    \A i \in 1..Len(items) :
        items[i].ret.st = "ok"
            => LET a == items[i].at
                   e == items[i].end
               IN  /\ e - a >= 12
                   /\ e <= Len(input)
                   /\ SubSeq(input, e - 3, e)
                          = U32Xor(CrcBitFold(CRC32_INIT, SubSeq(input, a + 5, e - 4)),
                                   CRC32_INIT)

\* A session has yielded an image header and then a text chunk.
C3_Witness ==
    /\ Len(items) = 2
    /\ items[1].ret.st = "ok"
    /\ items[1].ret.val.kind = "ImageHeader"
    /\ items[2].ret.st = "ok"
    /\ items[2].ret.val.kind = "Text"

ItemError(its) == \E i \in 1..Len(its) : its[i].ret.st = "err"

C12_WellFormedStreamYieldsAll ==
    (SessionOver /\ arg.kind = "Session" /\ arg.flip = 0)
        => /\ pc = "done"
           /\ pos = Len(input)
           /\ Len(items) = Len(arg.chunks)
           /\ \A i \in 1..Len(items) : items[i].ret = ChunkRet(arg.chunks[i])

\* The session of an image header, a text chunk and an unknown chunk ended
\* cleanly after three items, the third of them Unknown.
C12_Witness ==
    /\ pc = "done"
    /\ arg.kind = "Session"
    /\ arg.flip = 0
    /\ Len(arg.chunks) = 3
    /\ arg.chunks[1].kind = "ImageHeader"
    /\ arg.chunks[2].kind = "Text"
    /\ arg.chunks[3].kind = "Unknown"
    /\ Len(items) = 3
    /\ items[3].ret = RetOk("unknown_chunk", PRIVATE, <<7>>)

\* C13: Decoder::new succeeds exactly when the source delivers 8 bytes and
\* they equal the PNG signature; it fails with InvalidSignature on every other
\* 8 bytes delivered and with the I/O error when fewer are; and in a session
\* whose signature did not match nothing after the first 8 bytes is read and
\* no parser operation takes place.
C13_SignatureGate ==
    LET delivered == NumOk(0, 8) = 8
        matches == SubSeq(input, 1, 8) = PNG_SIGNATURE
    IN  /\ ret.op = "new" => ((ret.st = "ok") <=> (delivered /\ matches))
        /\ (ret.op = "new" /\ delivered /\ ~matches)
               => ret = RetErr("new", "InvalidSignature", NoName)
        /\ (ret.op = "new" /\ ~delivered) => ret = RetIo("new", ReadErr)
        /\ (pc # "new" /\ ~(delivered /\ matches))
               => (pc = "failed" /\ ret.op = "new" /\ pos <= 8 /\ items = <<>>)

\* A source whose first byte is not the signature's, with a chunk after its
\* first 8 bytes, was refused.
C13_Witness ==
    /\ ret = RetErr("new", "InvalidSignature", NoName)
    /\ pc = "failed"
    /\ input[1] # PNG_SIGNATURE[1]
    /\ Len(input) > 8
    /\ pos = 8

\* C14: the palette flag is false when the Parser is created; set_palette()
\* leaves it true; once true it is true in every later state; and no step
\* other than set_palette() changes it, whether the operation succeeds or
\* fails.
C14_PaletteMonotonic ==
    [][/\ pc = "new" => ~has_palette'
       /\ has_palette => has_palette'
       /\ ret'.op = "set_palette" => has_palette'
       /\ has_palette' # has_palette => ret'.op = "set_palette"]_vars

\* The flag still set after later chunks were read and a checksum failed.
C14_Witness ==
    /\ has_palette
    /\ ret.op = "check_crc"
    /\ ret.err = "Crc32"
    /\ hdr > Len(PNG_SIGNATURE)

\* The channels of the color types of the format.
ChannelCount == [Grey |-> 1, Palette |-> 1, GreyAlpha |-> 2, Rgb |-> 3, Rgba |-> 4]

\* ceil(width * height * bits per pixel / 8), computed exactly.
CeilBytes(h) ==
    BigShr3(BigAdd(BigScale(BigMul(BigOfU32(h.width), BigOfU32(h.height)),
                            ChannelCount[h.color_type] * h.bit_depth),
                   BigOfInt(7)))

PixelCount(h) == BigMul(BigOfU32(h.width), BigOfU32(h.height))

\* "will not overflow for any color type if roughly w * h < 268435455"
RAW_SIZE_LIMIT == 268435455

Below32(a) == \A i \in Digits : i >= 4 => a[i] = 0

\* C15: for every ImageHeader that read() returns with width * height below
\* 268435455, raw_size() is ceil(width * height * bpp / 8), the pixels taken
\* as one flat bit stream, and the pixel count and the result are below 2^32.
C15_RawSizeFlatCeil ==
    (pc = "ihdrSized" /\ BigLt(PixelCount(res.val), BigOfInt(RAW_SIZE_LIMIT)))
        => /\ ret = RetSize(CeilBytes(res.val))
           /\ Below32(PixelCount(res.val))
           /\ Below32(ret.val.digits)

\* 3 x 5 pixels of 1 bit take 2 bytes, where rows rounded one by one take 5.
C15_Witness ==
    /\ pc = "ihdrSized"
    /\ res.val.width = U32(0, 3)
    /\ res.val.height = U32(0, 5)
    /\ res.val.color_type = "Grey"
    /\ res.val.bit_depth = 1
    /\ ret = RetSize(BigOfInt(2))
    /\ RetSize(BigOfInt(5)) \in raw_size_per_row(res.val)

\* C15 as stated, for every ImageHeader: raw_size() is ceil(width * height *
\* bpp / 8).
C15_RawSizeAnyHeader ==
    pc = "ihdrSized" => ret = RetSize(CeilBytes(res.val))

\* C18: for every pair of the validity matrix bpp() is channels * bit depth,
\* a value in 1..64 that a u8 holds; and every ImageHeader that read()
\* returns passes the assertion of bpp() and has such a value.
C18_BppInRange ==
    /\ \A p \in ValidityMatrix :
          /\ bpp(p[1], p[2]) = RetOk("bpp", NoName, <<ChannelCount[p[1]] * p[2]>>)
          /\ ChannelCount[p[1]] * p[2] \in 1..64
    /\ (pc \in {"ihdrDone", "ihdrSized"} /\ res.st = "ok")
          => /\ res.val.bit_depth >= 1 /\ res.val.bit_depth <= 16
             /\ ImageHeader_bpp(res.val)
                    = RetOk("bpp", NoName, <<ChannelCount[res.val.color_type] * res.val.bit_depth>>)
             /\ ImageHeader_bpp(res.val).data[1] \in 1..64
             /\ (pc = "ihdrSized" => ret.op = "raw_size")

\* raw_size() has called bpp() on an Rgba header of depth 16 that read()
\* returned: 64 bits per pixel.
C18_Witness ==
    /\ pc = "ihdrSized"
    /\ res.val.color_type = "Rgba"
    /\ res.val.bit_depth = 16
    /\ ImageHeader_bpp(res.val).data = <<64>>
    /\ ret.st = "ok"

\* The body of the chunk the last prepare() was called on, as declared.
DeclaredBody == SubSeq(input, hdr + 9, hdr + 8 + len(length))

C17_WrittenIsParsable ==
    (pc = "textDone" /\ arg.kind = "Text" /\ arg.key # <<>>)
        => /\ Len(arg.key) \in 1..79
           /\ ~HasTerminator(arg.key)
           /\ len(length) = Len(arg.key) + Len(arg.val) + 1
           /\ res.op = "parse"
           /\ res.st = "ok"

====
